---- MODULE Spec2Model ----
(***************************************************************************)
(* Model of temperature_to_midi.py: the numeric-to-note mapping functions  *)
(* (step_average, midi_normalization, convert_sequence) and the one-shot   *)
(* pipelines set_mode dispatches to.                                       *)
(*                                                                         *)
(* Python floats are modelled as exact rationals <<n, d>> (d >= 1, lowest  *)
(* terms).  Rounding of IEEE doubles is not modelled: where a value equals *)
(* a computed threshold exactly, the doubles may compare either way.       *)
(***************************************************************************)
EXTENDS Integers, Sequences, FiniteSets, TLC

(* ------------------------------ bounds --------------------------------- *)
MaxLen == 4
MaxVal == 2
MaxStep == 4
MaxNote == 2
MaxTable == 2

(* ------------------------- program constants --------------------------- *)
duration_monthly == 1
duration_yearly == duration_monthly * 12
duration_by_decade == duration_yearly * 10

(* --------------------------- exact rationals --------------------------- *)
Abs(n) == IF n < 0 THEN -n ELSE n

RECURSIVE GCD(_, _)
GCD(a, b) == IF b = 0 THEN a ELSE GCD(b, a % b)

RatNorm(n, d) ==
    LET g == GCD(Abs(n), Abs(d))
        s == IF d < 0 THEN -1 ELSE 1
    IN  <<(s * n) \div g, (s * d) \div g>>

Rat(n) == <<n, 1>>
RatAdd(p, q) == RatNorm(p[1] * q[2] + q[1] * p[2], p[2] * q[2])
RatSub(p, q) == RatNorm(p[1] * q[2] - q[1] * p[2], p[2] * q[2])
RatMulInt(p, k) == RatNorm(p[1] * k, p[2])
RatDivInt(p, k) == RatNorm(p[1], p[2] * k)
RatLeq(p, q) == p[1] * q[2] <= q[1] * p[2]
RatLess(p, q) == p[1] * q[2] < q[1] * p[2]

RatSeq(s) == [i \in 1..Len(s) |-> Rat(s[i])]

(* ----------------------- builtins: sum, max, min ----------------------- *)
\* sum() folds left to right; exact addition is associative, so the list is
\* split in halves here to keep the recursion shallow.
RECURSIVE sum(_)
sum(l) ==
    IF l = <<>> THEN Rat(0)
    ELSE IF Len(l) = 1 THEN l[1]
    ELSE LET h == Len(l) \div 2
         IN  RatAdd(sum(SubSeq(l, 1, h)), sum(SubSeq(l, h + 1, Len(l))))

max(l) ==
    CHOOSE x \in {l[i] : i \in 1..Len(l)} :
        \A y \in {l[i] : i \in 1..Len(l)} : RatLeq(y, x)

min(l) ==
    CHOOSE x \in {l[i] : i \in 1..Len(l)} :
        \A y \in {l[i] : i \in 1..Len(l)} : RatLeq(x, y)

(* --------------------------- get_list_average -------------------------- *)
get_list_average(list_to_average) ==
    RatDivInt(sum(list_to_average), Len(list_to_average))

(* ------------------------------ step_average --------------------------- *)
\* The emit test of the loop body: a window is averaged when the index of
\* the element being visited is a non-zero multiple of step.
window_closes(sequence_number, step) ==
    sequence_number % step = 0 /\ sequence_number # 0

\* The for loop, unrolled: an average is appended at every sequence_number
\* for which window_closes holds, and step_sequence then holds the elements
\* visited since the previous append (or since the start); what is in
\* step_sequence when the loop ends is never appended.
step_average(sequence, step) ==
    LET closes == {n \in 0..(Len(sequence) - 1) : window_closes(n, step)}
        kth(k) == CHOOSE n \in closes : Cardinality({m \in closes : m <= n}) = k
        opened(k) == IF k = 1 THEN 0 ELSE kth(k - 1)
    IN  [k \in 1..Cardinality(closes) |->
            get_list_average(SubSeq(sequence, opened(k) + 1, kth(k)))]

(* --------------------------- midi_normalization ------------------------ *)
\* The threshold appended for loop value i of range(midi_note_min, midi_note_max)
increment_at(lowest, increment, i) == RatAdd(lowest, RatMulInt(increment, i))

range_len_inclusive(midi_note_min, midi_note_max) ==
    IF midi_note_max > midi_note_min THEN midi_note_max - midi_note_min + 1 ELSE 0

\* Number of iterations of range(midi_note_min, midi_note_max)
range_len(midi_note_min, midi_note_max) ==
    IF midi_note_max > midi_note_min THEN midi_note_max - midi_note_min ELSE 0

midi_normalization(csv_values, midi_note_min, midi_note_max) ==
    IF csv_values = <<>>
    THEN [err |-> "ValueError", val |-> <<>>]
    ELSE LET the_range == RatSub(max(csv_values), min(csv_values))
             total_midi_notes == midi_note_max - midi_note_min
         IN  IF total_midi_notes = 0
             THEN [err |-> "ZeroDivisionError", val |-> <<>>]
             ELSE LET increment == RatDivInt(the_range, total_midi_notes)
                  IN  [err |-> "none",
                       val |-> [k \in 1..range_len(midi_note_min, midi_note_max) |->
                                  increment_at(min(csv_values), increment,
                                               midi_note_min + k - 1)]]

(* ----------------------------- convert_sequence ------------------------ *)
matches_strict(t, i) == RatLess(t, i)

\* The comparison of the inner loop
matches(t, i) == RatLeq(t, i)

\* Inner loop: 0-based position of the first matching increment at or after
\* position num, or -1 when the loop ends without a break.
RECURSIVE first_match(_, _, _)
first_match(t, increments, num) ==
    IF num >= Len(increments) THEN -1
    ELSE IF matches(t, increments[num + 1]) THEN num
         ELSE first_match(t, increments, num + 1)

\* The outer loop appends, in order, one note per temperature whose inner
\* loop breaks; the list is split in halves to keep the recursion shallow.
RECURSIVE convert_sequence(_, _, _)
convert_sequence(temperatures, increments, midi_note_min) ==
    IF temperatures = <<>> THEN <<>>
    ELSE IF Len(temperatures) = 1
    THEN LET num == first_match(temperatures[1], increments, 0)
         IN  IF num = -1 THEN <<>> ELSE <<num + midi_note_min>>
    ELSE LET h == Len(temperatures) \div 2
         IN  convert_sequence(SubSeq(temperatures, 1, h), increments, midi_note_min)
             \o convert_sequence(SubSeq(temperatures, h + 1, Len(temperatures)),
                                 increments, midi_note_min)

(* ======================================================================= *)
(* State                                                                   *)
(* ======================================================================= *)
VARIABLES
    args,                \* the pending call of one mapping function
    ret,                 \* what that call returned
    pc,                  \* stage the pipeline run is about to execute
    mode,                \* set_mode's mode selector
    source,              \* the CSV file named by temperature_data
    midi_note_min,
    midi_note_max,
    plan,                \* resolutions still to run, current one first
    temperature_history, \* local of create_*_sequence
    averaged_history,    \* yearly_history / decade_history
    new_increments,      \* local of create_*_sequence
    sequence,            \* local of create_*_sequence
    files,               \* output files written so far
    error,               \* exception that ended the run, "none" otherwise
    trace                \* history: the stages executed so far, in order

fnvars == <<args, ret>>
runvars == <<pc, mode, source, midi_note_min, midi_note_max, plan,
             temperature_history, averaged_history, new_increments,
             sequence, files, error, trace>>
vars == <<args, ret, pc, mode, source, midi_note_min, midi_note_max, plan,
          temperature_history, averaged_history, new_increments,
          sequence, files, error, trace>>

(* ======================================================================= *)
(* Calls of the mapping functions on bounded arguments                     *)
(* ======================================================================= *)
RECURSIVE SeqsUpTo(_, _)
SeqsUpTo(S, n) ==
    IF n = 0 THEN {<<>>}
    ELSE LET shorter == SeqsUpTo(S, n - 1)
         IN  shorter \cup {Append(s, x) : s \in shorter, x \in S}

\* The two series of the documented scenarios
ScenarioSeries == {<<1, 2, 3, 4, 5, 6, 7, 8>>, <<10, 20, 30>>}

Series == SeqsUpTo(0..MaxVal, MaxLen) \cup ScenarioSeries
Tables == SeqsUpTo(0..MaxVal, MaxTable)

NoCall == [fn |-> "none", values |-> <<>>, step |-> 1, lo |-> 0, hi |-> 0,
           increments |-> <<>>]
NoRet == [fn |-> "none", err |-> "none", val |-> <<>>, increments |-> <<>>]

IdleRun ==
    /\ pc = "idle"
    /\ mode = 0
    /\ source = [readable |-> FALSE, rows |-> <<>>]
    /\ midi_note_min = 0
    /\ midi_note_max = 0
    /\ plan = <<>>
    /\ temperature_history = <<>>
    /\ averaged_history = <<>>
    /\ new_increments = <<>>
    /\ sequence = <<>>
    /\ files = {}
    /\ error = "none"
    /\ trace = <<>>

InitFn ==
    /\ IdleRun
    /\ ret = NoRet
    /\ \/ \E v \in Series, st \in 1..MaxStep :
            args = [NoCall EXCEPT !.fn = "step_average",
                                  !.values = RatSeq(v), !.step = st]
       \/ \E v \in Series, lo \in 0..MaxNote, hi \in 0..(MaxNote + 1) :
            args = [NoCall EXCEPT !.fn = "midi_normalization",
                                  !.values = RatSeq(v), !.lo = lo, !.hi = hi]
       \/ \E v \in Series, t \in Tables, lo \in 0..MaxNote :
            args = [NoCall EXCEPT !.fn = "convert_sequence",
                                  !.values = RatSeq(v), !.lo = lo,
                                  !.hi = lo + Len(t),
                                  !.increments = RatSeq(t)]

CallStepAverage ==
    /\ args.fn = "step_average"
    /\ ret.fn = "none"
    /\ ret' = [NoRet EXCEPT !.fn = "step_average",
                            !.val = step_average(args.values, args.step)]
    /\ UNCHANGED <<args, runvars>>

CallMidiNormalization ==
    /\ args.fn = "midi_normalization"
    /\ ret.fn = "none"
    /\ LET r == midi_normalization(args.values, args.lo, args.hi)
       IN  ret' = [NoRet EXCEPT !.fn = "midi_normalization", !.err = r.err,
                                !.val = r.val, !.increments = r.val]
    /\ UNCHANGED <<args, runvars>>

CallConvertSequence ==
    /\ args.fn = "convert_sequence"
    /\ ret.fn = "none"
    /\ ret' = [NoRet EXCEPT !.fn = "convert_sequence",
                            !.val = convert_sequence(args.values, args.increments, args.lo),
                            !.increments = args.increments]
    /\ UNCHANGED <<args, runvars>>

\* new_increments = midi_normalization(h, lo, hi) followed by
\* sequence = convert_sequence(h, new_increments, lo), as every
\* create_*_sequence chains them.
ConvertNormalized ==
    /\ ret.fn = "midi_normalization"
    /\ ret.err = "none"
    /\ ret' = [NoRet EXCEPT !.fn = "normalize_convert",
                            !.val = convert_sequence(args.values, ret.val, args.lo),
                            !.increments = ret.val]
    /\ UNCHANGED <<args, runvars>>

NextFn ==
    \/ CallStepAverage
    \/ CallMidiNormalization
    \/ CallConvertSequence
    \/ ConvertNormalized

SpecFn == InitFn /\ [][NextFn]_vars

(* ======================================================================= *)
(* The CSV source and read_history                                         *)
(* ======================================================================= *)
MaxRows == 19
MaxPattern == 2

\* A cell is numeric text, the missing-value token "***", or other text.
NumCell(n) == [kind |-> "num", v |-> n]
MissingCell == [kind |-> "***", v |-> 0]
TextCell == [kind |-> "text", v |-> 0]

CellVal(p, r, c) == ((p * (3 * r + c)) % 7) - 3

\* A file of two header rows and n data rows of width w (column 0 is the
\* year); defect puts one "***" or one unparseable cell in the first data row.
DataRow(p, r, w, defect) ==
    [c \in 1..w |->
        IF c = 1 THEN NumCell(1880 + r)
        ELSE IF r = 1 /\ c = 3 /\ defect = "missing" THEN MissingCell
        ELSE IF r = 1 /\ c = 4 /\ defect = "text" THEN TextCell
        ELSE NumCell(CellVal(p, r, c))]

HeaderRow(w) == [c \in 1..w |-> TextCell]

CsvFile(n, w, p, defect) ==
    [readable |-> defect # "unreadable",
     rows |-> <<HeaderRow(1), HeaderRow(w)>> \o [r \in 1..n |-> DataRow(p, r, w, defect)]]

RowCounts == {0, 1, 2, 10, MaxRows}
Widths == {13, 19}
Defects == {"none", "missing", "text", "unreadable"}
Sources == {CsvFile(n, w, p, d) : n \in RowCounts, w \in Widths,
                                  p \in 0..MaxPattern, d \in Defects}

\* The column test of read_history, column_number 0-based
column_selected(column_number) == 1 <= column_number /\ column_number < 14

\* The cells of one row that reach float(), in column order
row_cells(row) ==
    LET picked == {c \in 1..Len(row) : column_selected(c - 1) /\ row[c].kind # "***"}
        upto(c) == Cardinality({d \in picked : d <= c})
    IN  [i \in 1..Cardinality(picked) |->
            row[CHOOSE c \in picked : upto(c) = i]]

RECURSIVE read_rows(_, _)
read_rows(rows, row_number) ==
    IF rows = <<>> THEN [err |-> "none", val |-> <<>>]
    ELSE IF row_number > 1
         THEN LET cells == row_cells(Head(rows))
              IN  IF \E i \in 1..Len(cells) : cells[i].kind = "text"
                  THEN [err |-> "ValueError", val |-> <<>>]
                  ELSE LET rest == read_rows(Tail(rows), row_number + 1)
                       IN  [err |-> rest.err,
                            val |-> IF rest.err = "none"
                                    THEN [i \in 1..Len(cells) |-> Rat(cells[i].v)] \o rest.val
                                    ELSE <<>>]
         ELSE read_rows(Tail(rows), row_number + 1)

read_history(file) ==
    IF ~file.readable THEN [err |-> "OSError", val |-> <<>>]
    ELSE read_rows(file.rows, 0)

(* ======================================================================= *)
(* set_mode and the create_*_sequence pipelines                            *)
(* ======================================================================= *)
\* The calls of each create_*_sequence, in statement order
create_monthly_sequence == <<"reading", "normalizing", "bucketizing", "encoding">>
create_yearly_sequence_write_first ==
    <<"reading", "downsampling", "encoding", "normalizing", "bucketizing">>

create_yearly_sequence ==
    <<"reading", "downsampling", "normalizing", "bucketizing", "encoding">>
create_decade_sequence ==
    <<"reading", "downsampling", "normalizing", "bucketizing", "encoding">>

steps(res) ==
    CASE res = "monthly" -> create_monthly_sequence
      [] res = "yearly" -> create_yearly_sequence
      [] res = "decade" -> create_decade_sequence

\* The calls of create_all_sequences, in statement order
create_all_sequences == <<"monthly", "yearly", "decade">>

mode_switch ==
    (0 :> <<"monthly">>) @@ (1 :> <<"yearly">>) @@ (2 :> <<"decade">>)
        @@ (3 :> create_all_sequences)

\* step passed to step_average
step_of(res) == IF res = "yearly" THEN duration_yearly ELSE duration_by_decade

\* duration passed to create_midi
duration_of(res) ==
    CASE res = "monthly" -> duration_monthly
      [] res = "yearly" -> duration_yearly
      [] res = "decade" -> duration_by_decade

\* series passed to midi_normalization and convert_sequence
history_of(res) ==
    IF res = "monthly" THEN temperature_history ELSE averaged_history

Modes == {0, 1, 2, 3, 5}
NoteRanges == {<<0, 2>>, <<1, 3>>, <<0, 3>>, <<1, 1>>, <<2, 1>>}

Init ==
    /\ args = NoCall
    /\ ret = NoRet
    /\ pc = "idle"
    /\ mode \in Modes
    /\ source \in Sources
    /\ \E r \in NoteRanges : midi_note_min = r[1] /\ midi_note_max = r[2]
    /\ plan = <<>>
    /\ temperature_history = <<>>
    /\ averaged_history = <<>>
    /\ new_increments = <<>>
    /\ sequence = <<>>
    /\ files = {}
    /\ error = "none"
    /\ trace = <<>>

res == Head(plan)

Position(s, x) == CHOOSE i \in 1..Len(s) : s[i] = x

\* Whether stage is the last call of the function running the head of remaining
returns_to_caller(remaining, stage) ==
    Position(steps(Head(remaining)), stage) = Len(steps(Head(remaining)))

\* Where control goes when the current call returns normally
after_return(remaining, stage) ==
    LET calls == steps(Head(remaining))
        at == Position(calls, stage)
    IN  IF at < Len(calls) THEN calls[at + 1]
        ELSE IF Len(remaining) > 1 THEN steps(remaining[2])[1]
        ELSE "done"

after_raise_isolated(remaining, stage) ==
    IF Len(remaining) > 1 THEN steps(remaining[2])[1] ELSE "failed"

\* Where control goes when the current call raises: neither the
\* create_*_sequence functions nor set_mode catch anything
after_raise(remaining, stage) == "failed"

Logged(stage, arg) == Append(trace, [res |-> res, stage |-> stage, arg |-> arg])

Return(stage) ==
    /\ pc' = after_return(plan, stage)
    /\ plan' = IF returns_to_caller(plan, stage) /\ Len(plan) > 1
               THEN Tail(plan) ELSE plan
    /\ error' = "none"

Raise(stage, exc) ==
    /\ pc' = after_raise(plan, stage)
    /\ plan' = IF pc' = "failed" THEN plan ELSE Tail(plan)
    /\ error' = IF pc' = "failed" THEN exc ELSE "none"

\* set_mode: look the selector up and call what was found; the fallback
\* "invalid mode" is a str, and calling it raises TypeError
SetMode ==
    /\ pc = "idle"
    /\ IF mode \in DOMAIN mode_switch
       THEN /\ plan' = mode_switch[mode]
            /\ pc' = steps(Head(plan'))[1]
            /\ error' = "none"
       ELSE /\ plan' = <<>>
            /\ pc' = "failed"
            /\ error' = "TypeError"
    /\ UNCHANGED <<args, ret, mode, source, midi_note_min, midi_note_max,
                   temperature_history, averaged_history, new_increments,
                   sequence, files, trace>>

\* Locals of a create_*_sequence call keep their last value in the model
\* after the call returns; each is assigned before it is read.
ReadHistory ==
    /\ pc = "reading"
    /\ LET r == read_history(source)
       IN  /\ temperature_history' = r.val
           /\ IF r.err = "none" THEN Return("reading") ELSE Raise("reading", r.err)
    /\ trace' = Logged("reading", 0)
    /\ UNCHANGED <<args, ret, mode, source, midi_note_min, midi_note_max,
                   averaged_history, new_increments, sequence, files>>

StepAverage ==
    /\ pc = "downsampling"
    /\ averaged_history' = step_average(temperature_history, step_of(res))
    /\ Return("downsampling")
    /\ trace' = Logged("downsampling", step_of(res))
    /\ UNCHANGED <<args, ret, mode, source, midi_note_min, midi_note_max,
                   temperature_history, new_increments, sequence, files>>

MidiNormalization ==
    /\ pc = "normalizing"
    /\ LET r == midi_normalization(history_of(res), midi_note_min, midi_note_max)
       IN  /\ new_increments' = r.val
           /\ IF r.err = "none" THEN Return("normalizing")
                                ELSE Raise("normalizing", r.err)
    /\ trace' = Logged("normalizing", 0)
    /\ UNCHANGED <<args, ret, mode, source, midi_note_min, midi_note_max,
                   temperature_history, averaged_history, sequence, files>>

ConvertSequence ==
    /\ pc = "bucketizing"
    /\ sequence' = convert_sequence(history_of(res), new_increments, midi_note_min)
    /\ Return("bucketizing")
    /\ trace' = Logged("bucketizing", 0)
    /\ UNCHANGED <<args, ret, mode, source, midi_note_min, midi_note_max,
                   temperature_history, averaged_history, new_increments, files>>

\* create_midi: the notes are added in memory, then the file is opened and
\* written; open() raises when the output is not writable.
CreateMidi ==
    /\ pc = "encoding"
    /\ trace' = Logged("encoding", duration_of(res))
    /\ \/ /\ files' = {f \in files : f.name # res} \cup
                        {[name |-> res, notes |-> sequence,
                          duration |-> duration_of(res)]}
          /\ Return("encoding")
       \/ /\ Raise("encoding", "OSError")
          /\ UNCHANGED files
    /\ UNCHANGED <<args, ret, mode, source, midi_note_min, midi_note_max,
                   temperature_history, averaged_history, new_increments,
                   sequence>>

Next ==
    \/ SetMode
    \/ ReadHistory
    \/ StepAverage
    \/ MidiNormalization
    \/ ConvertSequence
    \/ CreateMidi

Spec == Init /\ [][Next]_vars

(* ======================================================================= *)
(* Properties of the mapping functions (checked under SpecFn)              *)
(* ======================================================================= *)
SetMin(S) == CHOOSE x \in S : \A y \in S : x <= y
Elems(s) == {s[i] : i \in 1..Len(s)}
Lowest(s) == CHOOSE x \in Elems(s) : \A y \in Elems(s) : RatLeq(x, y)
Highest(s) == CHOOSE x \in Elems(s) : \A y \in Elems(s) : RatLeq(y, x)

\* 1-based positions of the thresholds that are >= v
Covering(v, table) == {k \in 1..Len(table) : RatLeq(v, table[k])}
Bucket(v, table, lo) == lo + SetMin(Covering(v, table)) - 1
ExpectedIndices(values, table, lo) ==
    LET kept == SelectSeq(values, LAMBDA v : Covering(v, table) # {})
    IN  [i \in 1..Len(kept) |-> Bucket(kept[i], table, lo)]

\* Mean of the j-th (1-based) window of size step
WindowMean(S, step, j) ==
    LET w == SubSeq(S, (j - 1) * step + 1, j * step)
    IN  RatNorm(sum(w)[1], sum(w)[2] * step)

\* C1: step_average returns floor(len/step) elements, element j being the
\* mean of the j-th complete window; [1..8] with step 4 gives [2.5, 6.5].
C1_CompleteWindowsAveraged ==
    ret.fn = "step_average" =>
        /\ Len(ret.val) = Len(args.values) \div args.step
        /\ \A j \in 1..(Len(args.values) \div args.step) :
              /\ j <= Len(ret.val)
              /\ ret.val[j] = WindowMean(args.values, args.step, j)
        /\ (args.values = RatSeq(<<1, 2, 3, 4, 5, 6, 7, 8>>) /\ args.step = 4)
              => ret.val = << <<5, 2>>, <<13, 2>> >>

\* C2: with step = 1 step_average returns a non-empty series unchanged.
C2_StepOneIsIdentity ==
    (ret.fn = "step_average" /\ args.step = 1 /\ args.values # <<>>)
        => ret.val = args.values

\* C3: for [10, 20, 30] and the index range 0..2 the thresholds are [20, 30]
\* and the indices are [0, 0, 1].
C3_ScenarioThresholdsAndIndices ==
    (args.values = RatSeq(<<10, 20, 30>>) /\ args.lo = 0 /\ args.hi = 2) =>
        /\ ret.fn = "midi_normalization" => ret.val = RatSeq(<<20, 30>>)
        /\ ret.fn = "normalize_convert" => ret.val = <<0, 0, 1>>

\* C4: for a non-empty series and maxIndex > minIndex, bucketing against
\* the series' own thresholds yields one index per element, in order.
C4_OneIndexPerElement ==
    (ret.fn = "normalize_convert" /\ args.values # <<>> /\ args.hi > args.lo) =>
        /\ Len(ret.val) = Len(args.values)
        /\ \A i \in 1..Len(args.values) :
              /\ Covering(args.values[i], ret.increments) # {}
              /\ i <= Len(ret.val)
              /\ ret.val[i] = Bucket(args.values[i], ret.increments, args.lo)

C10_IndicesInRangeFirstCover ==
    ret.fn \in {"convert_sequence", "normalize_convert"} =>
        /\ \A i \in 1..Len(ret.val) :
              /\ args.lo <= ret.val[i]
              /\ ret.val[i] <= args.lo + Len(ret.increments)
        /\ Len(ret.increments) = args.hi - args.lo
              => \A i \in 1..Len(ret.val) : ret.val[i] <= args.hi
        /\ ret.val = ExpectedIndices(args.values, ret.increments, args.lo)

\* a value equal to the second threshold, above the first, got position 1
C10_Witness ==
    /\ ret.fn = "convert_sequence"
    /\ Len(ret.val) = Len(args.values)
    /\ Len(ret.increments) >= 2
    /\ \E i \in 1..Len(args.values) :
          /\ args.values[i] = ret.increments[2]
          /\ RatLess(ret.increments[1], args.values[i])
          /\ ret.val[i] = args.lo + 1

(* ======================================================================= *)
(* Properties of the pipelines (checked under Spec)                        *)
(* ======================================================================= *)
Resolutions == {"monthly", "yearly", "decade"}
Stages == <<"reading", "downsampling", "normalizing", "bucketizing", "encoding">>
StageRank(stage) == Position(Stages, stage)
ResRank(r) == Position(<<"monthly", "yearly", "decade">>, r)
EntriesOf(r) == SelectSeq(trace, LAMBDA e : e.res = r)
Written(r) == \E f \in files : f.name = r
Last(s) == s[Len(s)]

\* C5: a mode selector outside {0,1,2,3} ends in an explicit InvalidArgument
\* error; no stage runs and no file is written.
C5_InvalidModeIsInvalidArgument ==
    (mode \notin {0, 1, 2, 3} /\ pc # "idle") =>
        /\ pc = "failed"
        /\ error = "InvalidArgument"
        /\ trace = <<>>
        /\ files = {}

\* C6: with maxIndex <= minIndex the normalizer fails and returns no table,
\* so the run never gets past normalizing, ends failed and writes no file.
C6_BadIndexRangeRejected ==
    midi_note_max <= midi_note_min =>
        /\ \A i \in 1..Len(trace) : trace[i].stage \notin {"bucketizing", "encoding"}
        /\ files = {}
        /\ pc # "done"

\* C7: within one resolution run the stages execute in the order reading,
\* downsampling, normalizing, bucketizing, encoding; a file exists only
\* after that resolution's bucketizing, and a run that failed before
\* encoding has left no file for its resolution.
C7_WriteOnlyAfterFullSequence ==
    \A r \in Resolutions :
        LET es == EntriesOf(r)
        IN  /\ \A i \in 1..(Len(es) - 1) :
                  StageRank(es[i].stage) < StageRank(es[i + 1].stage)
            /\ Written(r) =>
                  \E i, j \in 1..Len(es) :
                      /\ i < j
                      /\ es[i].stage = "bucketizing"
                      /\ es[j].stage = "encoding"
                      /\ \E k \in 1..i : es[k].stage = "normalizing"
                      /\ es[1].stage = "reading"
            /\ (pc = "failed" /\ trace # <<>> /\ Last(trace).res = r
                  /\ Last(trace).stage # "encoding") => ~Written(r)
            \* the file just written holds the whole index sequence
            /\ (pc # "failed" /\ trace # <<>> /\ Last(trace).res = r
                  /\ Last(trace).stage = "encoding") =>
                  \E f \in files :
                      /\ f.name = r
                      /\ f.notes = ExpectedIndices(history_of(r), new_increments,
                                                   midi_note_min)

\* the yearly run failed normalizing an empty averaged series
C7_Witness ==
    /\ pc = "failed"
    /\ error = "ValueError"
    /\ trace # <<>>
    /\ Last(trace).res = "yearly"
    /\ Last(trace).stage = "normalizing"
    /\ temperature_history # <<>>
    /\ averaged_history = <<>>
    /\ ~Written("yearly")

C8_AllModeState ==
    mode = 3 =>
        \* monthly, yearly, decade in that order, each only after the
        \* previous one wrote its file
        /\ \A i, j \in 1..Len(trace) :
              i < j => ResRank(trace[i].res) <= ResRank(trace[j].res)
        /\ \A i \in 1..Len(trace) : \A r \in Resolutions :
              ResRank(r) < ResRank(trace[i].res) => Written(r)
        \* downsample steps: none (1) for monthly, 12 and 120
        /\ \A i \in 1..Len(trace) :
              trace[i].stage = "downsampling" =>
                  /\ trace[i].res # "monthly"
                  /\ trace[i].res = "yearly" => trace[i].arg = 12
                  /\ trace[i].res = "decade" => trace[i].arg = 120
        /\ (pc \in {"bucketizing", "encoding"} /\ res = "monthly") =>
              new_increments =
                  midi_normalization(temperature_history, midi_note_min,
                                     midi_note_max).val
        \* after a failure in resolution r only earlier resolutions have
        \* run to their file
        /\ pc = "failed" =>
              /\ trace # <<>>
              /\ \A r \in Resolutions :
                    Written(r) => ResRank(r) < ResRank(Last(trace).res)

\* C8: in mode 3 the monthly, yearly and decade pipelines run in that order
\* with downsample steps 1, 12 and 120, and once a resolution has failed no
\* further stage runs and no further file is written.
C8_AllModeSequentialAbort ==
    /\ []C8_AllModeState
    /\ [][(mode = 3 /\ pc = "failed") => (trace' = trace /\ files' = files)]_vars

\* mode 3: monthly wrote its file, then yearly failed
C8_Witness ==
    /\ mode = 3
    /\ pc = "failed"
    /\ Written("monthly")
    /\ trace # <<>>
    /\ Last(trace).res = "yearly"
    /\ ~Written("yearly")
    /\ ~Written("decade")

====
